---- MODULE Spec2Model ----
(***************************************************************************)
(* A model of tor_core/initialize.py: build_bot, initialize and the six    *)
(* populate_* steps that fill the shared config object from wiki pages.    *)
(*                                                                         *)
(* Text is modelled character by character: a Python str is a sequence of  *)
(* one-character strings, with CR, LF and SP standing for '\r', '\n' and   *)
(* ' '.  A Python list is a sequence, a dict a set of <<key, value>> pairs *)
(* with at most one pair per key.                                          *)
(***************************************************************************)
EXTENDS Integers, Sequences, FiniteSets, TLC

CR == "CR"
LF == "LF"
SP == "SP"

\* ------------------------------------------------------------------------
\* Python str / list primitives used by initialize.py
\* ------------------------------------------------------------------------

Whitespace == {SP, CR, LF}

Digits == {"0", "1", "2", "3", "4", "5", "6", "7", "8", "9"}

DigitVal(ch) ==
  CASE ch = "0" -> 0 [] ch = "1" -> 1 [] ch = "2" -> 2 [] ch = "3" -> 3
    [] ch = "4" -> 4 [] ch = "5" -> 5 [] ch = "6" -> 6 [] ch = "7" -> 7
    [] ch = "8" -> 8 [] ch = "9" -> 9

\* s[i:] and s[:i] with 1-based i
Drop(s, n) == SubSeq(s, n + 1, Len(s))
Take(s, n) == SubSeq(s, 1, n)

StartsWith(s, prefix) ==
  /\ Len(prefix) <= Len(s)
  /\ Take(s, Len(prefix)) = prefix

\* first 1-based position at which sep occurs in s, 0 when it does not
Find(s, sep) ==
  LET hits == {i \in 1..(Len(s) - Len(sep) + 1) : SubSeq(s, i, i + Len(sep) - 1) = sep}
  IN IF hits = {} THEN 0 ELSE CHOOSE i \in hits : \A j \in hits : i <= j

\* str.split(sep) for a non-empty separator: always at least one piece
RECURSIVE Split(_, _)
Split(s, sep) ==
  LET i == Find(s, sep)
  IN IF i = 0 THEN <<s>>
     ELSE <<Take(s, i - 1)>> \o Split(Drop(s, i + Len(sep) - 1), sep)

\* str.splitlines(): breaks at '\n', '\r' and '\r\n'; no piece for the end
\* of the text after a final line break; '' gives [].
RECURSIVE SplitLines(_)
SplitLines(s) ==
  LET brk == {i \in 1..Len(s) : s[i] \in {CR, LF}}
  IN IF s = <<>> THEN <<>>
     ELSE IF brk = {} THEN <<s>>
     ELSE LET i == CHOOSE k \in brk : \A j \in brk : k <= j
              w == IF s[i] = CR /\ i < Len(s) /\ s[i + 1] = LF THEN 2 ELSE 1
          IN <<Take(s, i - 1)>> \o SplitLines(Drop(s, i + w - 1))

\* str.strip(chars)
RECURSIVE LStripChars(_, _)
LStripChars(s, chars) ==
  IF s # <<>> /\ s[1] \in chars THEN LStripChars(Tail(s), chars) ELSE s

RECURSIVE RStripChars(_, _)
RStripChars(s, chars) ==
  IF s # <<>> /\ s[Len(s)] \in chars THEN RStripChars(Take(s, Len(s) - 1), chars) ELSE s

StripChars(s, chars) == RStripChars(LStripChars(s, chars), chars)

Strip(s) == StripChars(s, Whitespace)

\* ''.join(pieces)
RECURSIVE Join(_)
Join(pieces) ==
  IF pieces = <<>> THEN <<>> ELSE Head(pieces) \o Join(Tail(pieces))

LowerChar(ch) ==
  CASE ch = "A" -> "a" [] ch = "B" -> "b" [] ch = "C" -> "c"
    [] OTHER -> ch

\* str.lower()
Lower(s) == [i \in 1..Len(s) |-> LowerChar(s[i])]

\* int(s): surrounding whitespace and one sign are accepted, then digits only
IntBody(s) ==
  LET t == Strip(s)
  IN IF t # <<>> /\ t[1] \in {"+", "-"} THEN Tail(t) ELSE t

IntOk(s) ==
  /\ IntBody(s) # <<>>
  /\ \A i \in 1..Len(IntBody(s)) : IntBody(s)[i] \in Digits

RECURSIVE DecimalValue(_)
DecimalValue(ds) ==
  IF ds = <<>> THEN 0
  ELSE 10 * DecimalValue(Take(ds, Len(ds) - 1)) + DigitVal(ds[Len(ds)])

IntValue(s) ==
  LET t == Strip(s)
  IN IF t[1] = "-" THEN 0 - DecimalValue(IntBody(s)) ELSE DecimalValue(IntBody(s))

\* d[k] = v on a dict held as a set of pairs
DictSet(d, k, v) == {p \in d : p[1] # k} \cup {<<k, v>>}

DictKeys(d) == {p[1] : p \in d}

\* tor_core.helpers.clean_list: trim each entry, drop the empty ones
RECURSIVE clean_list(_)
clean_list(items) ==
  IF items = <<>> THEN <<>>
  ELSE LET e == Strip(Head(items))
       IN IF e = <<>> THEN clean_list(Tail(items))
          ELSE <<e>> \o clean_list(Tail(items))

\* ------------------------------------------------------------------------
\* Parsing done inside the populate_* functions.  Every operator takes the
\* config record c and the fetched text and returns [cfg, err]: the config
\* as the function leaves it and the exception that ended it ("none" when
\* the statements ran to their end).
\* ------------------------------------------------------------------------

Ok(c) == [cfg |-> c, err |-> "none"]
Raise(c, e) == [cfg |-> c, err |-> e]

Comma == <<",">>
Video == <<"v", "i", "d", "e", "o">>
Audio == <<"a", "u", "d", "i", "o">>
Images == <<"i", "m", "a", "g", "e", "s">>

\* the body of the loop over the '---' separated blocks of the domains page
DomainBlock(c, domainset) ==
  LET i == Find(domainset, <<"[">>)
      domain_list == Split(StripChars(Drop(domainset, i - 1), {"[", "]"}), <<",", SP>>)
  IN IF i = 0 THEN Raise(c, "ValueError")
     ELSE IF StartsWith(domainset, Video)
       THEN Ok([c EXCEPT !.video_domains = @ \o domain_list])
     ELSE IF StartsWith(domainset, Audio)
       THEN Ok([c EXCEPT !.audio_domains = @ \o domain_list])
     ELSE IF StartsWith(domainset, Images)
       THEN Ok([c EXCEPT !.image_domains = @ \o domain_list])
     ELSE Ok(c)

RECURSIVE DomainLoop(_, _)
DomainLoop(c, domains) ==
  IF domains = <<>> THEN Ok(c)
  ELSE LET r == DomainBlock(c, Head(domains))
       IN IF r.err # "none" THEN r ELSE DomainLoop(r.cfg, Tail(domains))

DomainsFill(c, text) ==
  DomainLoop(c, Split(Join(SplitLines(text)), <<"-", "-", "-">>))

SubredditsFill(c, text) ==
  Ok([c EXCEPT !.subreddits_to_check = clean_list(Split(text, <<CR, LF>>))])

RECURSIVE UpvoteLoop(_, _)
UpvoteLoop(c, lines) ==
  IF lines = <<>> THEN Ok(c)
  ELSE LET line == Head(lines)
           parts == Split(line, Comma)
       IN IF Find(line, Comma) = 0 THEN UpvoteLoop(c, Tail(lines))
          ELSE IF Len(parts) # 2 \/ ~IntOk(parts[2]) THEN Raise(c, "ValueError")
          ELSE UpvoteLoop(
                 [c EXCEPT !.upvote_filter_subs = DictSet(@, parts[1], IntValue(parts[2]))],
                 Tail(lines))

UpvoteFill(c, text) == UpvoteLoop(c, SplitLines(text))

NoLinkHeaderFill(c, text) ==
  Ok([c EXCEPT !.no_link_header_subs = clean_list(Split(text, <<CR, LF>>))])

\* a key stored as written on the page
ArchiveKey_AsWritten(sub) == sub

ArchiveKey(sub) == Lower(sub)

RECURSIVE ArchiveLoop(_, _)
ArchiveLoop(c, lines) ==
  IF lines = <<>> THEN Ok(c)
  ELSE LET line == Head(lines)
           parts == Split(line, Comma)
       IN IF Find(line, Comma) = 0 THEN ArchiveLoop(c, Tail(lines))
          ELSE IF Len(parts) # 2 \/ ~IntOk(parts[2]) THEN Raise(c, "ValueError")
          ELSE ArchiveLoop(
                 [c EXCEPT !.archive_time_subreddits =
                             DictSet(@, ArchiveKey(parts[1]), IntValue(parts[2]))],
                 Tail(lines))

ArchiveFill(c, text) ==
  LET lines == SplitLines(text)
  IN IF lines = <<>> THEN Raise(c, "IndexError")
     ELSE IF ~IntOk(lines[1]) THEN Raise(c, "ValueError")
     ELSE ArchiveLoop(
            [c EXCEPT !.archive_time_default = IntValue(lines[1]),
                      !.archive_time_subreddits = {}],
            Tail(lines))

GifsFill(c, text) == Ok([c EXCEPT !.no_gifs = Split(text, <<CR, LF>>)])

HeaderFill(c, text) == Ok([c EXCEPT !.header = text])
AudioFill(c, text) == Ok([c EXCEPT !.audio_formatting = text])
VideoFill(c, text) == Ok([c EXCEPT !.video_formatting = text])
ImageFill(c, text) == Ok([c EXCEPT !.image_formatting = text])
ModeratorsFill(c, mods) == Ok([c EXCEPT !.tor_mods = mods])

\* the assignments each populate_* function makes before its first fetch
\* a header reset that also empties the formatting templates
HeaderReset_AlsoFormatting(c) ==
  [c EXCEPT !.header = <<>>, !.audio_formatting = <<>>, !.video_formatting = <<>>,
            !.image_formatting = <<>>]

HeaderReset(c) == [c EXCEPT !.header = <<>>]
FormattingReset(c) ==
  [c EXCEPT !.audio_formatting = <<>>, !.video_formatting = <<>>, !.image_formatting = <<>>]
\* a reset that forgets video_domains
DomainsReset_KeepsVideo(c) == [c EXCEPT !.image_domains = <<>>, !.audio_domains = <<>>]

DomainsReset(c) ==
  [c EXCEPT !.video_domains = <<>>, !.image_domains = <<>>, !.audio_domains = <<>>]
ModeratorsReset(c) == [c EXCEPT !.tor_mods = <<>>]
SubredditsReset(c) ==
  [c EXCEPT !.subreddits_to_check = <<>>, !.upvote_filter_subs = {},
            !.no_link_header_subs = <<>>]
GifsReset(c) == [c EXCEPT !.no_gifs = <<>>]

\* ------------------------------------------------------------------------
\* The collaborators: what a wiki page, the moderator list and the Redis
\* ping can return
\* ------------------------------------------------------------------------

\* texts of the wiki pages
HeaderA == <<"H", "1">>
HeaderB == <<"H", "2">>
FormatAudio == <<"A", "1">>
FormatVideo == <<"V", "1">>
FormatImages == <<"I", "1">>
\* 'video[a, b]\n---audio[c]'
DomainsA ==
  <<"v", "i", "d", "e", "o", "[", "a", ",", SP, "b", "]", LF, "-", "-", "-",
    "a", "u", "d", "i", "o", "[", "c", "]">>
\* 'images[d]---gif[e]': a block of an unknown category
DomainsB ==
  <<"i", "m", "a", "g", "e", "s", "[", "d", "]", "-", "-", "-", "g", "i", "f", "[", "e", "]">>
\* 'video[a]---audio': a block without '['
DomainsBad ==
  <<"v", "i", "d", "e", "o", "[", "a", "]", "-", "-", "-", "a", "u", "d", "i", "o">>
\* 'a\r\nB\r\n\r\nc'
SubredditsCRLF == <<"a", CR, LF, "B", CR, LF, CR, LF, "c">>
\* 'a\nB'
SubredditsLF == <<"a", LF, "B">>
\* 'a,5\nbaz\nB,10'
UpvoteA == <<"a", ",", "5", LF, "b", "a", "z", LF, "B", ",", "1", "0">>
\* 'a,7'
UpvoteB == <<"a", ",", "7">>
\* 'a,5\nB,x': a threshold that is no number
UpvoteBad == <<"a", ",", "5", LF, "B", ",", "x">>
\* 'a\r\n c\r\n'
NoLink == <<"a", CR, LF, SP, "c", CR, LF>>
\* '600\na,1\nBA,2'
ArchiveA == <<"6", "0", "0", LF, "a", ",", "1", LF, "B", "A", ",", "2">>
\* '9'
ArchiveB == <<"9">>
\* '': no first line
ArchiveEmpty == <<>>
\* '5\nBA,2\nc,x': a time that is no number, after a line that is stored
ArchiveBad == <<"5", LF, "B", "A", ",", "2", LF, "c", ",", "x">>
\* 'x\r\ny'
Gifs == <<"x", CR, LF, "y">>

\* get_wiki_page(pagename, config): the texts the page may hold when fetched
WikiTexts(page) ==
  CASE page = "format/header" -> {HeaderA, HeaderB}
    [] page = "format/audio" -> {FormatAudio}
    [] page = "format/video" -> {FormatVideo}
    [] page = "format/images" -> {FormatImages}
    [] page = "domains" -> {DomainsA, DomainsB, DomainsBad}
    [] page = "subreddits" -> {SubredditsCRLF, SubredditsLF}
    [] page = "subreddits/upvote-filtered" -> {UpvoteA, UpvoteB, UpvoteBad}
    [] page = "subreddits/no-link-header" -> {NoLink}
    [] page = "subreddits/archive-time" -> {ArchiveA, ArchiveB, ArchiveEmpty, ArchiveBad}
    [] page = "usefulgifs/no" -> {Gifs}

\* config.tor.moderator(): the moderator lists of the two subreddits
Moderators(tor) ==
  IF tor = "ModsOfToR" THEN {<<"m1", "m2">>} ELSE {<<"u1">>}

\* redis_server.ping(): answers, or raises redis.exceptions.ConnectionError
PingResults == {"ok", "ConnectionError"}

\* on-demand repopulation calls made after build_bot has returned
MaxReloads == 1

\* ------------------------------------------------------------------------
\* State
\* ------------------------------------------------------------------------

VARIABLES
  cfg,            \* tor_core.config.config, the shared configuration object
  require_redis,  \* build_bot's parameter
  pc,             \* "build_bot" while it runs, then "Ready", "exited" or "raised"
  bpos,           \* which statement of build_bot is next
  ipos,           \* which call of initialize is next (1..6, 7: all made)
  step,           \* the populate_* function being executed, or "none"
  seg,            \* where that function is: 0 at its resets, k at its k-th fetch
  ping,           \* what redis_server.ping() did: "not_run", "ok", "ConnectionError"
  exit_status,    \* the status given to sys.exit, -1 while the process runs
  redis_error,    \* the exception raised by calling config.redis, "none" so far
  log,            \* the fatal and info records written
  trace,          \* the calls build_bot and initialize have made, in order
  fetched,        \* what each fetch of the current (or last) populate call returned
  pre,            \* the config as it was when that call started
  last,           \* the populate call that ended last and how, until the next call
  reloads,        \* populate calls made after build_bot returned
  observed        \* what a reader of the config object last read

vars == <<cfg, require_redis, pc, bpos, ipos, step, seg, ping, exit_status, redis_error,
          log, trace, fetched, pre, last, reloads, observed>>

NotFetched == <<"None">>

Pages == {"format/header", "format/audio", "format/video", "format/images", "domains",
          "subreddits", "subreddits/upvote-filtered", "subreddits/no-link-header",
          "subreddits/archive-time", "usefulgifs/no", "moderators"}

NoFetches == [p \in Pages |-> NotFetched]

NotRead == [group |-> "none"]

NoCall == [step |-> "none", outcome |-> "none"]

Steps == {"populate_domain_lists", "populate_subreddit_lists", "populate_formatting",
          "populate_header", "populate_moderators", "populate_gifs"}

\* an initialize that loads the formatting before the subreddits
InitializeOrder_FormattingFirst ==
  <<"populate_domain_lists", "populate_formatting", "populate_subreddit_lists",
    "populate_header", "populate_moderators", "populate_gifs">>

\* the order in which initialize calls the steps
InitializeOrder ==
  <<"populate_domain_lists", "populate_subreddit_lists", "populate_formatting",
    "populate_header", "populate_moderators", "populate_gifs">>

\* the fetches each step makes, in order
StepPages(s) ==
  CASE s = "populate_header" -> <<"format/header">>
    [] s = "populate_formatting" -> <<"format/audio", "format/video", "format/images">>
    [] s = "populate_domain_lists" -> <<"domains">>
    [] s = "populate_moderators" -> <<"moderators">>
    [] s = "populate_subreddit_lists" ->
         <<"subreddits", "subreddits/upvote-filtered", "subreddits/no-link-header",
           "subreddits/archive-time">>
    [] s = "populate_gifs" -> <<"usefulgifs/no">>

\* the config attributes each step assigns
Owned(s) ==
  CASE s = "populate_header" -> {"header"}
    [] s = "populate_formatting" ->
         {"audio_formatting", "video_formatting", "image_formatting"}
    [] s = "populate_domain_lists" -> {"video_domains", "image_domains", "audio_domains"}
    [] s = "populate_moderators" -> {"tor_mods"}
    [] s = "populate_subreddit_lists" ->
         {"subreddits_to_check", "upvote_filter_subs", "no_link_header_subs",
          "archive_time_default", "archive_time_subreddits"}
    [] s = "populate_gifs" -> {"no_gifs"}

\* the config object before build_bot: nothing populated, no handles
InitialConfig ==
  [ header |-> <<>>, audio_formatting |-> <<>>, video_formatting |-> <<>>,
    image_formatting |-> <<>>, video_domains |-> <<>>, image_domains |-> <<>>,
    audio_domains |-> <<>>, subreddits_to_check |-> <<>>, upvote_filter_subs |-> {},
    no_link_header_subs |-> <<>>, archive_time_default |-> 0,
    archive_time_subreddits |-> {}, no_gifs |-> <<>>, tor_mods |-> <<>>,
    debug_mode |-> FALSE, r |-> "None", redis |-> "None", tor |-> "None" ]

Init ==
  /\ \E d \in BOOLEAN : cfg = [InitialConfig EXCEPT !.debug_mode = d]
  /\ require_redis \in BOOLEAN
  /\ pc = "build_bot"
  /\ bpos = 1
  /\ ipos = 1
  /\ step = "none"
  /\ seg = 0
  /\ ping = "not_run"
  /\ exit_status = -1
  /\ redis_error = "none"
  /\ log = <<>>
  /\ trace = <<>>
  /\ fetched = NoFetches
  /\ pre = cfg
  /\ last = NoCall
  /\ reloads = 0
  /\ observed = NotRead

\* ------------------------------------------------------------------------
\* build_bot
\* ------------------------------------------------------------------------

\* a build_bot that selects the subreddit before it sets up Redis
BuildBotOrder_TorBeforeRedis ==
  <<"Reddit", "configure_logging", "configure_tor", "redis", "initialize">>

\* the statements of build_bot, in order
BuildBotOrder ==
  <<"Reddit", "configure_logging", "redis", "configure_tor", "initialize">>

\* the statement build_bot is at
At(stmt) == pc = "build_bot" /\ BuildBotOrder[bpos] = stmt

configure_tor(c) == IF c.debug_mode THEN "ModsOfToR" ELSE "transcribersofreddit"

\* config.r = Reddit(name)
BuildBotReddit ==
  /\ At("Reddit")
  /\ cfg' = [cfg EXCEPT !.r = "Reddit"]
  /\ trace' = Append(trace, "Reddit")
  /\ bpos' = bpos + 1
  /\ UNCHANGED <<require_redis, pc, ipos, step, seg, ping, exit_status, redis_error,
                 log, fetched, pre, last, reloads, observed>>

\* configure_logging(config, log_name): handlers installed, header logged
BuildBotConfigureLogging ==
  /\ At("configure_logging")
  /\ log' = Append(log, "Starting!")
  /\ trace' = Append(trace, "configure_logging")
  /\ bpos' = bpos + 1
  /\ UNCHANGED <<cfg, require_redis, pc, ipos, step, seg, ping, exit_status,
                 redis_error, fetched, pre, last, reloads, observed>>

\* require_redis: config.redis = configure_redis(), the ping answered
BuildBotRedisUp ==
  /\ At("redis")
  /\ require_redis
  /\ "ok" \in PingResults
  /\ ping' = "ok"
  /\ cfg' = [cfg EXCEPT !.redis = "StrictRedis"]
  /\ trace' = Append(trace, "configure_redis")
  /\ bpos' = bpos + 1
  /\ UNCHANGED <<require_redis, pc, ipos, step, seg, exit_status, redis_error, log,
                 fetched, pre, last, reloads, observed>>

\* a configure_redis that logs the failed ping and returns the handle anyway
BuildBotRedisDown_NoExit ==
  /\ At("redis")
  /\ require_redis
  /\ ping' = "ConnectionError"
  /\ log' = Append(log, "Redis server is not running! Exiting!")
  /\ trace' = Append(trace, "configure_redis")
  /\ cfg' = [cfg EXCEPT !.redis = "StrictRedis"]
  /\ bpos' = bpos + 1
  /\ UNCHANGED <<require_redis, pc, ipos, step, seg, exit_status, redis_error, fetched,
                 pre, last, reloads, observed>>

\* require_redis: the ping raised ConnectionError: fatal record, sys.exit(1)
BuildBotRedisDown ==
  /\ At("redis")
  /\ require_redis
  /\ "ConnectionError" \in PingResults
  /\ ping' = "ConnectionError"
  /\ log' = Append(log, "Redis server is not running! Exiting!")
  /\ trace' = Append(trace, "configure_redis")
  /\ exit_status' = 1
  /\ pc' = "exited"
  /\ UNCHANGED <<cfg, require_redis, bpos, ipos, step, seg, redis_error, fetched,
                 pre, last, reloads, observed>>

\* a build_bot that pings Redis even when the caller does not require it
BuildBotRedisDisabled_Pings ==
  /\ At("redis")
  /\ ~require_redis
  /\ \E res \in PingResults :
       /\ ping' = res
       /\ IF res = "ok"
            THEN /\ bpos' = bpos + 1
                 /\ UNCHANGED <<pc, exit_status>>
            ELSE /\ pc' = "exited"
                 /\ exit_status' = 1
                 /\ UNCHANGED bpos
  /\ cfg' = [cfg EXCEPT !.redis = "raise NotImplementedError"]
  /\ trace' = Append(trace, "disable_redis")
  /\ UNCHANGED <<require_redis, ipos, step, seg, redis_error, log, fetched, pre, last,
                 reloads, observed>>

\* not require_redis: config.redis = a lambda that raises NotImplementedError
BuildBotRedisDisabled ==
  /\ At("redis")
  /\ ~require_redis
  /\ cfg' = [cfg EXCEPT !.redis = "raise NotImplementedError"]
  /\ trace' = Append(trace, "disable_redis")
  /\ bpos' = bpos + 1
  /\ UNCHANGED <<require_redis, pc, ipos, step, seg, ping, exit_status, redis_error,
                 log, fetched, pre, last, reloads, observed>>

\* config.tor = configure_tor(config)
BuildBotConfigureTor ==
  /\ At("configure_tor")
  /\ cfg' = [cfg EXCEPT !.tor = configure_tor(cfg)]
  /\ trace' = Append(trace, "configure_tor")
  /\ bpos' = bpos + 1
  /\ UNCHANGED <<require_redis, pc, ipos, step, seg, ping, exit_status, redis_error,
                 log, fetched, pre, last, reloads, observed>>

\* ------------------------------------------------------------------------
\* initialize and the populate_* steps
\* ------------------------------------------------------------------------

\* a populate_* function is entered: by initialize, or later by a reload
Enter(s) ==
  /\ step' = s
  /\ seg' = 0
  /\ pre' = cfg
  /\ fetched' = NoFetches
  /\ last' = NoCall

\* initialize(config): the next populate_* call
InitializeCall ==
  /\ At("initialize")
  /\ step = "none"
  /\ ipos <= Len(InitializeOrder)
  /\ Enter(InitializeOrder[ipos])
  /\ trace' = Append(trace, InitializeOrder[ipos])
  /\ UNCHANGED <<cfg, require_redis, pc, bpos, ipos, ping, exit_status, redis_error,
                 log, reloads, observed>>

\* initialize returned: 'Bot built and initialized!', return config
BuildBotReturn ==
  /\ At("initialize")
  /\ step = "none"
  /\ ipos > Len(InitializeOrder)
  /\ log' = Append(log, "Bot built and initialized!")
  /\ pc' = "Ready"
  /\ UNCHANGED <<cfg, require_redis, bpos, ipos, step, seg, ping, exit_status,
                 redis_error, trace, fetched, pre, last, reloads, observed>>

\* a populate_* function is called again after build_bot returned
Reload ==
  /\ pc = "Ready"
  /\ step = "none"
  /\ reloads < MaxReloads
  /\ \E s \in Steps : Enter(s)
  /\ reloads' = reloads + 1
  /\ UNCHANGED <<cfg, require_redis, pc, bpos, ipos, ping, exit_status, redis_error,
                 log, trace, observed>>

\* the populate_* function s ends: by returning, or by the exception e, which
\* leaves initialize and build_bot too when they are the callers
Leave(s, e) ==
  /\ step' = "none"
  /\ seg' = 0
  /\ last' = [step |-> s, outcome |-> IF e = "none" THEN "ok" ELSE e]
  /\ IF pc = "build_bot"
       THEN /\ pc' = IF e = "none" THEN pc ELSE "raised"
            /\ ipos' = IF e = "none" THEN ipos + 1 ELSE ipos
       ELSE UNCHANGED <<pc, ipos>>

\* the statements of s before its first fetch
DoReset(s, c2) ==
  /\ step = s
  /\ seg = 0
  /\ cfg' = c2
  /\ seg' = 1
  /\ UNCHANGED <<require_redis, pc, bpos, ipos, step, ping, exit_status, redis_error,
                 log, trace, fetched, pre, last, reloads, observed>>

\* the k-th fetch of s returned text, and the statements up to the next fetch
\* (or the end of s) gave r
DoFetch(s, k, text, r) ==
  /\ step = s
  /\ seg = k
  /\ fetched' = [fetched EXCEPT ![StepPages(s)[k]] = text]
  /\ cfg' = r.cfg
  /\ IF r.err = "none" /\ k < Len(StepPages(s))
       THEN /\ seg' = k + 1
            /\ UNCHANGED <<pc, ipos, step, last, observed>>
       ELSE Leave(s, r.err)
  /\ UNCHANGED <<require_redis, bpos, ping, exit_status, redis_error, log, trace, pre,
                 reloads, observed>>

\* the fetch the running step is at raised: get_wiki_page's, or moderator()'s
FetchRaises ==
  /\ step # "none"
  /\ seg >= 1
  /\ Leave(step, "FetchError")
  /\ UNCHANGED <<cfg, require_redis, bpos, ping, exit_status, redis_error, log, trace,
                 fetched, pre, reloads, observed>>

PopulateHeaderReset == DoReset("populate_header", HeaderReset(cfg))

PopulateHeaderFetch ==
  \E t \in WikiTexts("format/header") :
    DoFetch("populate_header", 1, t, HeaderFill(cfg, t))

PopulateFormattingReset == DoReset("populate_formatting", FormattingReset(cfg))

PopulateFormattingAudio ==
  \E t \in WikiTexts("format/audio") :
    DoFetch("populate_formatting", 1, t, AudioFill(cfg, t))

PopulateFormattingVideo ==
  \E t \in WikiTexts("format/video") :
    DoFetch("populate_formatting", 2, t, VideoFill(cfg, t))

PopulateFormattingImages ==
  \E t \in WikiTexts("format/images") :
    DoFetch("populate_formatting", 3, t, ImageFill(cfg, t))

PopulateDomainListsReset == DoReset("populate_domain_lists", DomainsReset(cfg))

PopulateDomainListsFetch ==
  \E t \in WikiTexts("domains") :
    DoFetch("populate_domain_lists", 1, t, DomainsFill(cfg, t))

PopulateModeratorsReset == DoReset("populate_moderators", ModeratorsReset(cfg))

PopulateModeratorsFetch ==
  \E m \in Moderators(cfg.tor) :
    DoFetch("populate_moderators", 1, m, ModeratorsFill(cfg, m))

PopulateSubredditListsReset == DoReset("populate_subreddit_lists", SubredditsReset(cfg))

PopulateSubredditListsSubreddits ==
  \E t \in WikiTexts("subreddits") :
    DoFetch("populate_subreddit_lists", 1, t, SubredditsFill(cfg, t))

PopulateSubredditListsUpvoteFiltered ==
  \E t \in WikiTexts("subreddits/upvote-filtered") :
    DoFetch("populate_subreddit_lists", 2, t, UpvoteFill(cfg, t))

PopulateSubredditListsNoLinkHeader ==
  \E t \in WikiTexts("subreddits/no-link-header") :
    DoFetch("populate_subreddit_lists", 3, t, NoLinkHeaderFill(cfg, t))

PopulateSubredditListsArchiveTime ==
  \E t \in WikiTexts("subreddits/archive-time") :
    DoFetch("populate_subreddit_lists", 4, t, ArchiveFill(cfg, t))

PopulateGifsReset == DoReset("populate_gifs", GifsReset(cfg))

PopulateGifsFetch ==
  \E t \in WikiTexts("usefulgifs/no") :
    DoFetch("populate_gifs", 1, t, GifsFill(cfg, t))

\* config.redis() is called after build_bot returned: the StrictRedis object
\* is not callable like that and nothing here models its use; the lambda
\* raises NotImplementedError, which ends the caller's run
CallRedisHandle ==
  /\ pc = "Ready"
  /\ step = "none"
  /\ IF cfg.redis = "raise NotImplementedError"
       THEN /\ redis_error' = "NotImplementedError"
            /\ pc' = "raised"
       ELSE UNCHANGED <<redis_error, pc>>
  /\ UNCHANGED <<cfg, require_redis, bpos, ipos, step, seg, ping, exit_status, log,
                 trace, fetched, pre, last, reloads, observed>>

Next ==
  \/ BuildBotReddit
  \/ BuildBotConfigureLogging
  \/ BuildBotRedisUp
  \/ BuildBotRedisDown
  \/ BuildBotRedisDisabled
  \/ BuildBotConfigureTor
  \/ InitializeCall
  \/ BuildBotReturn
  \/ Reload
  \/ FetchRaises
  \/ PopulateHeaderReset
  \/ PopulateHeaderFetch
  \/ PopulateFormattingReset
  \/ PopulateFormattingAudio
  \/ PopulateFormattingVideo
  \/ PopulateFormattingImages
  \/ PopulateDomainListsReset
  \/ PopulateDomainListsFetch
  \/ PopulateModeratorsReset
  \/ PopulateModeratorsFetch
  \/ PopulateSubredditListsReset
  \/ PopulateSubredditListsSubreddits
  \/ PopulateSubredditListsUpvoteFiltered
  \/ PopulateSubredditListsNoLinkHeader
  \/ PopulateSubredditListsArchiveTime
  \/ PopulateGifsReset
  \/ PopulateGifsFetch
  \/ CallRedisHandle

Spec == Init /\ [][Next]_vars

\* ------------------------------------------------------------------------
\* A reader of the shared config object (the bot's business logic) that runs
\* while a populate_* function is called again: at any moment of that call it
\* reads the attributes of one group.  Nothing in initialize.py locks the
\* object or swaps it as a whole.
\* ------------------------------------------------------------------------

OwnedVals(s, c) == [f \in Owned(s) |-> c[f]]

ReaderRead ==
  /\ pc = "Ready"
  /\ step # "none"
  /\ \E s \in Steps :
       observed' = [group |-> s, during |-> step, vals |-> OwnedVals(s, cfg),
                    before |-> OwnedVals(s, pre)]
  /\ UNCHANGED <<cfg, require_redis, pc, bpos, ipos, step, seg, ping, exit_status,
                 redis_error, log, trace, fetched, pre, last, reloads>>

NextWithReader == Next \/ ReaderRead

SpecWithReader == Init /\ [][NextWithReader]_vars

\* ------------------------------------------------------------------------
\* Each populate_* function as a whole: the config it leaves, given the
\* config it was called with and what its fetches return (f: page -> text)
\* ------------------------------------------------------------------------

populate_header(c, f) == HeaderFill(HeaderReset(c), f["format/header"])

populate_formatting(c, f) ==
  LET r1 == AudioFill(FormattingReset(c), f["format/audio"])
      r2 == IF r1.err # "none" THEN r1 ELSE VideoFill(r1.cfg, f["format/video"])
  IN IF r2.err # "none" THEN r2 ELSE ImageFill(r2.cfg, f["format/images"])

populate_domain_lists(c, f) == DomainsFill(DomainsReset(c), f["domains"])

populate_moderators(c, f) == ModeratorsFill(ModeratorsReset(c), f["moderators"])

populate_subreddit_lists(c, f) ==
  LET r1 == SubredditsFill(SubredditsReset(c), f["subreddits"])
      r2 == IF r1.err # "none" THEN r1
            ELSE UpvoteFill(r1.cfg, f["subreddits/upvote-filtered"])
      r3 == IF r2.err # "none" THEN r2
            ELSE NoLinkHeaderFill(r2.cfg, f["subreddits/no-link-header"])
  IN IF r3.err # "none" THEN r3 ELSE ArchiveFill(r3.cfg, f["subreddits/archive-time"])

populate_gifs(c, f) == GifsFill(GifsReset(c), f["usefulgifs/no"])

RunStep(s, c, f) ==
  CASE s = "populate_header" -> populate_header(c, f)
    [] s = "populate_formatting" -> populate_formatting(c, f)
    [] s = "populate_domain_lists" -> populate_domain_lists(c, f)
    [] s = "populate_moderators" -> populate_moderators(c, f)
    [] s = "populate_subreddit_lists" -> populate_subreddit_lists(c, f)
    [] s = "populate_gifs" -> populate_gifs(c, f)

\* ------------------------------------------------------------------------
\* Properties
\* ------------------------------------------------------------------------

IsPrefix(a, b) == Len(a) <= Len(b) /\ a = SubSeq(b, 1, Len(a))

RECURSIVE SelectCalls(_, _)
SelectCalls(tr, keep) ==
  IF tr = <<>> THEN <<>>
  ELSE IF Head(tr) \in keep THEN <<Head(tr)>> \o SelectCalls(Tail(tr), keep)
  ELSE SelectCalls(Tail(tr), keep)

\* the populate_* calls made so far by initialize, in order
PopulateCalls == SelectCalls(trace, Steps)

\* build_bot has returned the config object
Returned == Len(log) > 0 /\ log[Len(log)] = "Bot built and initialized!"

AllFetched(s) == \A k \in 1..Len(StepPages(s)) : fetched[StepPages(s)[k]] # NotFetched

Untouched(s) == OwnedVals(s, cfg) = OwnedVals(s, InitialConfig)

\* C1: when a populate step ends because one of its fetches failed, its
\* attributes are either all as they were before the call or all new.
C1_NoPartialCommit ==
  (step = "none" /\ last.outcome = "FetchError") =>
    \/ OwnedVals(last.step, cfg) = OwnedVals(last.step, pre)
    \/ /\ AllFetched(last.step)
       /\ OwnedVals(last.step, cfg) = OwnedVals(last.step, RunStep(last.step, pre, fetched).cfg)

\* C2: with Redis required and the ping failing, the process has exited with
\* status 1 and a fatal record, no populate step was ever entered and no
\* populated attribute was written.
C2_PingFailureExitsBeforePopulation ==
  (require_redis /\ ping = "ConnectionError") =>
    /\ pc = "exited"
    /\ exit_status = 1
    /\ log[Len(log)] = "Redis server is not running! Exiting!"
    /\ PopulateCalls = <<>>
    /\ step = "none"
    /\ \A s \in Steps : Untouched(s)

C2_Witness ==
  /\ require_redis
  /\ ping = "ConnectionError"
  /\ pc = "exited"
  /\ trace = <<"Reddit", "configure_logging", "configure_redis">>

\* C3: after a populate step has completed, its attributes are exactly what
\* the same fetch results give on a config that was never populated (nothing
\* of what the config held before the call survives), and calling the step
\* once more with the same fetch results leaves the config as it is.
C3_ReloadLeavesNoStaleState ==
  (step = "none" /\ last.outcome = "ok") =>
    /\ OwnedVals(last.step, cfg) =
         OwnedVals(last.step, RunStep(last.step, InitialConfig, fetched).cfg)
    /\ RunStep(last.step, cfg, fetched) = Ok(cfg)

C3_Witness ==
  /\ step = "none"
  /\ last = [step |-> "populate_domain_lists", outcome |-> "ok"]
  /\ reloads = 1
  /\ pre.video_domains # <<>>
  /\ fetched["domains"] = DomainsB
  /\ cfg.image_domains # <<>>

\* C4: a reader that reads a step's attributes while the step runs again
\* sees them as they were before the call, never in between.
C4_NoTornRead ==
  (observed.group # "none" /\ observed.during = observed.group) =>
    observed.vals = observed.before

\* tables of fetch results, one text per page
FetchTable(header, domains, subreddits, upvote, archive, mods) ==
  [p \in Pages |->
     CASE p = "format/header" -> header
       [] p = "format/audio" -> FormatAudio
       [] p = "format/video" -> FormatVideo
       [] p = "format/images" -> FormatImages
       [] p = "domains" -> domains
       [] p = "subreddits" -> subreddits
       [] p = "subreddits/upvote-filtered" -> upvote
       [] p = "subreddits/no-link-header" -> NoLink
       [] p = "subreddits/archive-time" -> archive
       [] p = "usefulgifs/no" -> Gifs
       [] p = "moderators" -> mods]

FetchTables ==
  { FetchTable(HeaderA, DomainsA, SubredditsCRLF, UpvoteA, ArchiveA, <<"m1", "m2">>),
    FetchTable(HeaderB, DomainsB, SubredditsLF, UpvoteB, ArchiveB, <<"u1">>) }

\* while a step runs no attribute it does not own changes, and the attributes
\* a step owns change only while that step runs
C5_Frame ==
  \A s \in Steps :
    /\ (step = s \/ step' = s) =>
         \A fld \in (DOMAIN cfg) \ Owned(s) : cfg'[fld] = cfg[fld]
    /\ step # s => OwnedVals(s, cfg') = OwnedVals(s, cfg)

\* a step that completed commutes with every other step: running the other
\* step after it or before it gives the same config
C5_Commute ==
  (step # "none" /\ step' = "none" /\ last'.outcome = "ok") =>
    \A s \in Steps \ {step} : \A f \in FetchTables :
      RunStep(s, cfg', f).cfg = RunStep(step, RunStep(s, pre, f).cfg, fetched').cfg

\* C5: a step changes none of the attributes it does not own, and for fixed
\* fetch results two different steps give the same config in either order.
C5_StepsIndependent == [][C5_Frame /\ C5_Commute]_vars

C5_Witness ==
  /\ step = "none"
  /\ last = [step |-> "populate_subreddit_lists", outcome |-> "ok"]
  /\ reloads = 1
  /\ cfg.subreddits_to_check # pre.subreddits_to_check
  /\ cfg.header # <<>>

UpperChars == {"A", "B", "C"}

\* C7: every key of archive_time_subreddits is lowercase, whatever the case
\* of the names on the fetched page and however the calls ended.
C7_ArchiveKeysLowercase ==
  \A key \in DictKeys(cfg.archive_time_subreddits) :
    \A i \in 1..Len(key) : key[i] \notin UpperChars

C7_Witness ==
  /\ step = "none"
  /\ last = [step |-> "populate_subreddit_lists", outcome |-> "ValueError"]
  /\ fetched["subreddits/archive-time"] = ArchiveBad
  /\ <<"b", "a">> \in DictKeys(cfg.archive_time_subreddits)
  /\ \E i \in 1..Len(fetched["subreddits/archive-time"]) :
       fetched["subreddits/archive-time"][i] \in UpperChars

\* the stage of the bootstrap that a call of build_bot begins
Stage(call) ==
  CASE call = "Reddit" -> <<"AuthenticatePlatform">>
    [] call \in {"configure_redis", "disable_redis"} -> <<"CheckCache">>
    [] call = "configure_tor" -> <<"SelectSubreddit">>
    [] call = "populate_domain_lists" -> <<"RunPopulationSteps">>
    [] OTHER -> <<>>

RECURSIVE StagesOf(_)
StagesOf(tr) == IF tr = <<>> THEN <<>> ELSE Stage(Head(tr)) \o StagesOf(Tail(tr))

StagesReached ==
  <<"Start">> \o StagesOf(trace) \o (IF Returned THEN <<"Ready">> ELSE <<>>)

\* C8 as claimed: the stages occur in the order Start, AuthenticatePlatform,
\* SelectSubreddit, CheckCache, RunPopulationSteps, Ready.
C8_ClaimedStageOrder ==
  IsPrefix(StagesReached,
           <<"Start", "AuthenticatePlatform", "SelectSubreddit", "CheckCache",
             "RunPopulationSteps", "Ready">>)

\* C8 as amended: the stages occur in the order Start, AuthenticatePlatform,
\* CheckCache, SelectSubreddit, RunPopulationSteps, Ready, none repeated.
C8_StageOrder ==
  IsPrefix(StagesReached,
           <<"Start", "AuthenticatePlatform", "CheckCache", "SelectSubreddit",
             "RunPopulationSteps", "Ready">>)

C8_Witness ==
  /\ Returned
  /\ pc = "Ready"
  /\ Len(StagesReached) = 6

\* C9: initialize calls the six steps in the order domains, subreddits,
\* formatting, header, moderators, gifs, each at most once and each only
\* after the one before it completed; when build_bot returns all six ran.
C9_FixedStepOrder ==
  /\ IsPrefix(PopulateCalls,
              <<"populate_domain_lists", "populate_subreddit_lists",
                "populate_formatting", "populate_header", "populate_moderators",
                "populate_gifs">>)
  /\ (pc = "build_bot" /\ step # "none") =>
       /\ PopulateCalls # <<>>
       /\ step = PopulateCalls[Len(PopulateCalls)]
       /\ ipos = Len(PopulateCalls)
  /\ (pc = "build_bot" /\ step = "none") =>
       /\ ipos = Len(PopulateCalls) + 1
       /\ last.outcome = (IF PopulateCalls = <<>> THEN "none" ELSE "ok")
  /\ Returned => Len(PopulateCalls) = 6

C9_Witness ==
  /\ Returned
  /\ reloads = 0
  /\ Len(PopulateCalls) = 6
  /\ last = [step |-> "populate_gifs", outcome |-> "ok"]

\* the text with every '\r\n' and bare '\n' replaced by the given line ending
RECURSIVE WithLineEnding(_, _)
WithLineEnding(text, ending) ==
  IF text = <<>> THEN <<>>
  ELSE IF Len(text) >= 2 /\ text[1] = CR /\ text[2] = LF
    THEN ending \o WithLineEnding(Drop(text, 2), ending)
  ELSE IF text[1] = LF THEN ending \o WithLineEnding(Tail(text), ending)
  ELSE <<text[1]>> \o WithLineEnding(Tail(text), ending)

\* C10: what is stored in subreddits_to_check and no_link_header_subs is the
\* same whether the fetched page ends its lines with '\r\n' or with '\n'.
C10_LineEndingsEquivalent ==
  /\ fetched["subreddits"] # NotFetched =>
       \A ending \in {<<CR, LF>>, <<LF>>} :
         cfg.subreddits_to_check =
           SubredditsFill(cfg, WithLineEnding(fetched["subreddits"], ending)).cfg.subreddits_to_check
  /\ fetched["subreddits/no-link-header"] # NotFetched =>
       \A ending \in {<<CR, LF>>, <<LF>>} :
         cfg.no_link_header_subs =
           NoLinkHeaderFill(cfg, WithLineEnding(fetched["subreddits/no-link-header"], ending)).cfg.no_link_header_subs

====
